---- MODULE Spec2Model ----
(***************************************************************************)
(* Servare: the database-backed job queue (src/src/job.rs), its handlers,  *)
(* the job runner loop and the run-group supervisor                        *)
(* (src/src/run_group.rs, src/src/main.rs).                                *)
(*                                                                         *)
(* The database is modelled at READ COMMITTED: `jobs`, `feeds` and         *)
(* `entries` hold the committed rows.  A run-phase transaction keeps its   *)
(* row locks in `records` and its uncommitted statements in `writes`; they *)
(* reach `jobs` at commit and are dropped at rollback.                     *)
(***************************************************************************)
EXTENDS Integers, FiniteSets, Sequences, Bags, TLC

\* Bounds of the model.
\* The longest link list of a feed document.
MaxLinks == 3
\* Events of the environment: a job row inserted by an HTTP handler, a database
\* failure (a failed statement or commit, a lost connection), an endpoint that
\* starts failing (the first handler error of a job row), the shutdown signal.
MaxEnv == 2

\* Program constants.
MANAGE_JOBS_LIMIT == 1
RUN_JOBS_LIMIT == 1
MAX_JOBS_ATTEMPTS == 5

Runners == {"r1", "r2"}
Users == {"u1", "u2"}
\* The feeds of user u1.
Feeds == {1, 2}
\* The feeds stored at the start: those of u1, and feed 3 of user u2.
StoredFeeds == Feeds \cup {3}
\* HTTP requests in flight; each can insert one feed.
Requests == {"q1", "q2"}
\* feeds.id is a serial: the ids of the stored feeds and of those requests add.
AllFeeds == 1..(Cardinality(StoredFeeds) + Cardinality(Requests))
\* feeds.user_id: u1 has a feed for every URL, so the feeds requests add are
\* those of u2.
FeedOwner == [f \in AllFeeds |-> IF f \in Feeds THEN "u1" ELSE "u2"]
\* feeds.url of the stored feeds, and the URLs a feed-add can resolve to: u2
\* has the feed of URL a that u1 has too.
Urls == {"a", "b"}
FeedUrl == [f \in StoredFeeds |-> IF f = 2 THEN "b" ELSE "a"]
\* Feed 1 was just added: favicon unknown, never refreshed. Feed 2 is an older
\* feed of the same user: it has its favicon and the entries of its source.
\* Feed 3 was found to have no favicon.
NewFeeds == {1}
ExtIds == {"e1", "e2"}

\* The entry ids the source of each feed holds.
Source == [f \in AllFeeds |-> IF f = 1 THEN {"e1", "e2"} ELSE {"e1"}]

\* What an invocation of the RefreshFeed handler meets: nothing usable at the
\* feed URL (no response, not a feed); the source, and then a statement of the
\* insert loop or the commit that fails; the source and a database that works.
RefreshAnswers(f) ==
    {[ok |-> FALSE, ids |-> {}], [ok |-> FALSE, ids |-> Source[f]],
     [ok |-> TRUE, ids |-> Source[f]]}

\* What a site can answer with: its page (names a favicon link, names none, or
\* cannot be fetched) and the favicon URL (2xx, non-2xx, or no response).
SiteAnswers == [doc : {"link", "nolink", "down"}, icon : {"2xx", "404", "down"}]

VARIABLES
    jobs,       \* committed rows of the jobs table
    nextId,     \* per key, the number of the next fresh job id
    feeds,      \* feeds table: has_favicon and site_favicon of each feed
    entries,    \* feed_entries table: bag of <<feed_id, external_id>>
    pc,         \* where each job runner is in run()
    mrecords,   \* create_fetch_favicons_jobs: the feeds its query returned
    records,    \* run_jobs: the rows its claim returned (and holds locked)
    todo,       \* run_jobs: the records the for loop has not reached yet
    writes,     \* run_jobs: the statements executed in the open transaction
    fired,      \* the shutdown broadcast was sent
    env,        \* events of the environment so far
    flaky,      \* job ids whose handler has returned an error
    invoked,    \* history: handler invocations per job id
    okRows,     \* history: job ids whose handler returned success
    okDone,     \* history: job ids whose successful tick committed
    lost,       \* history: job ids whose handler ran in a tick that rolled back
    counted,    \* history: committed ticks, per job id, whose handler failed
    task,       \* run group: state of each task spawned on the JoinSet
    sent,       \* run group: the shutdown notification was sent
    joined,     \* run group: tasks whose result join_next has returned
    sup,        \* run group: the supervisor, joining or returned
    inbox,      \* run group: notifications waiting in each task's receiver
    feedRows,   \* feeds table: id, user_id and url of each row
    req,        \* HTTP requests: where each handler is, and its locals
    readAt,     \* feed_entries rows whose read_at is set
    call        \* the last call of Job::key or of the feed parser: input and result

vars == <<jobs, nextId, feeds, entries, pc, mrecords, records, todo, writes,
          fired, env, flaky, invoked, okRows, okDone, lost, counted, task, sent,
          joined, sup, inbox, feedRows, req, readAt, call>>

runnerVars == <<pc, mrecords, records, todo, writes>>
histVars == <<invoked, okRows, okDone, lost, counted>>
groupVars == <<task, sent, joined, sup, inbox>>
webVars == <<feedRows, req, readAt>>
jobVars == <<jobs, nextId, feeds, entries, pc, mrecords, records, todo, writes,
             fired, env, flaky, invoked, okRows, okDone, lost, counted>>

----------------------------------------------------------------------------
\* Job payloads and fingerprints

FetchFavicon(f) ==
    [type |-> "FetchFavicon", user_id |-> FeedOwner[f], feed_id |-> f,
     link |-> <<"site_link", f>>]
RefreshFeed(f) ==
    [type |-> "RefreshFeed", user_id |-> FeedOwner[f], feed_id |-> f,
     link |-> <<"feed_url", f>>]
\* What HTTP handlers enqueue: feed-add (both jobs of the new feed) and manual
\* refresh (RefreshFeed of every feed of the user).
JobPayloads == {FetchFavicon(f) : f \in NewFeeds} \cup {RefreshFeed(f) : f \in Feeds}

\* Job::key: the hash of the type's tag followed by the feed id.
key(job) ==
    IF job.type = "FetchFavicon" THEN <<"fetch_favicon", job.feed_id>>
    ELSE <<"refresh_feed", job.feed_id>>

Ids(rows) == {j.id : j \in rows}
Row(id) == CHOOSE j \in jobs : j.id = id
Min(a, b) == IF a <= b THEN a ELSE b

\* The unique index on jobs.key: an insert of key k conflicts with a stored row.
KeyConflict(rows, k) == \E j \in rows : j.key = k

----------------------------------------------------------------------------
\* post_job: INSERT INTO jobs(id, key, data) ... ON CONFLICT DO NOTHING

NewRow(id, job) ==
    [id |-> id, key |-> key(job), data |-> job, status |-> "pending", attempts |-> 0]

\* JobId::default(): a fresh id (Uuid::new_v4).
FreshId(job) == <<key(job), nextId[key(job)]>>

post_job_plain_insert(job) ==
    /\ jobs' = jobs \cup {NewRow(FreshId(job), job)}
    /\ nextId' = [nextId EXCEPT ![key(job)] = @ + 1]

post_job_upsert(job) ==
    /\ jobs' = {j \in jobs : j.key # key(job)} \cup {NewRow(FreshId(job), job)}
    /\ nextId' = [nextId EXCEPT ![key(job)] = @ + 1]

\* Ok(job_id): the id generated for the INSERT, whether or not a row was stored.
PostResult(job) == FreshId(job)

post_job(job) ==
    IF KeyConflict(jobs, key(job))
    THEN UNCHANGED <<jobs, nextId>>
    ELSE /\ jobs' = jobs \cup {NewRow(FreshId(job), job)}
         /\ nextId' = [nextId EXCEPT ![key(job)] = @ + 1]

\* An HTTP handler enqueues on the pool (feed-add, manual refresh).
HttpPost(job) ==
    /\ post_job(job)
    /\ env' = IF jobs' = jobs THEN env ELSE env + 1
    /\ env' <= MaxEnv
    /\ UNCHANGED <<feeds, entries, runnerVars, fired, flaky, histVars, groupVars, webVars, call>>

----------------------------------------------------------------------------
\* Job handlers

\* set_favicon: UPDATE feeds SET site_favicon = $1, has_favicon = $2 WHERE id = $3
set_favicon_flag_only(f, data) ==
    feeds' = [feeds EXCEPT ![f].has_favicon = IF data # "null" THEN "yes" ELSE "no"]

set_favicon(f, data) ==
    feeds' = [feeds EXCEPT ![f] =
                [has_favicon |-> IF data # "null" THEN "yes" ELSE "no",
                 site_favicon |-> data]]

\* find_favicon: the favicon URL named by the page; none when the page names no
\* link or cannot be fetched.
find_favicon(ans) == IF ans.doc = "link" THEN "url" ELSE "none"

\* fetch_bytes: the body of whatever response arrives, 2xx or not; an error when
\* none arrives.
fetch_bytes(icon) ==
    IF icon = "down" THEN [ok |-> FALSE, body |-> "null"]
    ELSE [ok |-> TRUE, body |-> IF icon = "2xx" THEN "icon" ELSE "errpage"]

FaviconResultNoFallback(ans) ==
    IF find_favicon(ans) = "url"
    THEN IF fetch_bytes(ans.icon).ok
         THEN [ok |-> TRUE, favicon |-> fetch_bytes(ans.icon).body]
         ELSE [ok |-> FALSE, favicon |-> "keep"]
    ELSE [ok |-> TRUE, favicon |-> "null"]

\* run_fetch_favicon_job: whether it returns Ok, and what it hands to set_favicon
\* ("keep": set_favicon is not reached).
FaviconResult(ans) ==
    IF find_favicon(ans) = "url"
    THEN IF fetch_bytes(ans.icon).ok
         THEN [ok |-> TRUE, favicon |-> fetch_bytes(ans.icon).body]
         ELSE [ok |-> FALSE, favicon |-> "keep"]
    ELSE IF ans.icon = "down" THEN [ok |-> FALSE, favicon |-> "keep"]
         ELSE IF ans.icon = "2xx" THEN [ok |-> TRUE, favicon |-> "icon"]
         ELSE [ok |-> TRUE, favicon |-> "null"]

run_fetch_favicon_job(data, ans) ==
    IF FaviconResult(ans).favicon = "keep"
    THEN UNCHANGED feeds
    ELSE set_favicon(data.feed_id, FaviconResult(ans).favicon)

\* feed_entry_with_external_id_exists: joins feed_entries to feeds on the USER id.
feed_entry_with_external_id_exists(user_id, external_id) ==
    \E e \in BagToSet(entries) : FeedOwner[e[1]] = user_id /\ e[2] = external_id

NewEntriesNoCheck(data, ids) == {<<data.feed_id, e>> : e \in ids}

\* The entries run_refresh_feed_job inserts for a source holding `ids`.
NewEntries(data, ids) ==
    {<<data.feed_id, e>> : e \in
        {x \in ids : ~feed_entry_with_external_id_exists(data.user_id, x)}}

run_refresh_feed_job_autocommit(data, ans) ==
    IF ans.ok
    THEN entries' = entries (+) SetToBag(NewEntries(data, ans.ids))
    ELSE \E s \in SUBSET NewEntries(data, ans.ids) : entries' = entries (+) SetToBag(s)

\* run_refresh_feed_job: the inserts run in one transaction (pool.begin ...
\* tx.commit); an error before the commit returns and drops it, which rolls back.
run_refresh_feed_job(data, ans) ==
    IF ans.ok
    THEN entries' = entries (+) SetToBag(NewEntries(data, ans.ids))
    ELSE UNCHANGED entries

----------------------------------------------------------------------------
\* JobRunner::run

\* select!: the interval branch. It is polled in random order with the shutdown
\* branch, so it can win whenever the interval is ready.
SelectTick(r) ==
    /\ pc[r] = "select"
    /\ pc' = [pc EXCEPT ![r] = "manage"]
    /\ UNCHANGED <<jobs, nextId, feeds, entries, mrecords, records, todo, writes,
                   fired, env, flaky, histVars, groupVars, webVars, call>>

SelectShutdownAnywhere(r) ==
    /\ pc[r] \in {"select", "manage", "post", "run", "loop"}
    /\ fired
    /\ pc' = [pc EXCEPT ![r] = "stopped"]
    /\ UNCHANGED <<jobs, nextId, feeds, entries, mrecords, records, todo, writes,
                   fired, env, flaky, histVars, groupVars, webVars, call>>

\* select!: the shutdown branch.
SelectShutdown(r) ==
    /\ pc[r] = "select"
    /\ fired
    /\ pc' = [pc EXCEPT ![r] = "stopped"]
    /\ UNCHANGED <<jobs, nextId, feeds, entries, mrecords, records, todo, writes,
                   fired, env, flaky, histVars, groupVars, webVars, call>>

\* The signal task: shutdown_sender.send(()).
ShutdownSignal ==
    /\ ~fired
    /\ env < MaxEnv
    /\ env' = env + 1
    /\ fired' = TRUE
    /\ UNCHANGED <<jobs, nextId, feeds, entries, runnerVars, flaky, histVars, groupVars, webVars, call>>

----------------------------------------------------------------------------
\* Manage phase: create_fetch_favicons_jobs

UnknownFeeds == {f \in {row.id : row \in feedRows} : feeds[f].has_favicon = "unknown"}

\* SELECT ... FROM feeds WHERE has_favicon IS NULL LIMIT $1
ManageQuery(r) ==
    /\ pc[r] = "manage"
    /\ \E s \in SUBSET UnknownFeeds :
          /\ Cardinality(s) = Min(MANAGE_JOBS_LIMIT, Cardinality(UnknownFeeds))
          /\ mrecords' = [mrecords EXCEPT ![r] = s]
          /\ pc' = [pc EXCEPT ![r] = IF s = {} THEN "run" ELSE "post"]
    /\ UNCHANGED <<jobs, nextId, feeds, entries, records, todo, writes,
                   fired, env, flaky, histVars, groupVars, webVars, call>>

\* for record in records { post_job(&mut tx, FetchFavicon ...) }; tx.commit()
ManagePost(r) ==
    /\ pc[r] = "post"
    /\ \E f \in mrecords[r] :
          /\ post_job(FetchFavicon(f))
          /\ mrecords' = [mrecords EXCEPT ![r] = @ \ {f}]
          /\ pc' = [pc EXCEPT ![r] = IF mrecords[r] = {f} THEN "run" ELSE "post"]
    /\ UNCHANGED <<feeds, entries, records, todo, writes,
                   fired, env, flaky, histVars, groupVars, webVars, call>>

\* The feed query, the begin or the commit fails: manage_jobs returns the error,
\* run() logs it and goes on to run_jobs.
ManageFail(r) ==
    /\ pc[r] \in {"manage", "post"}
    /\ env < MaxEnv
    /\ env' = env + 1
    /\ mrecords' = [mrecords EXCEPT ![r] = {}]
    /\ pc' = [pc EXCEPT ![r] = "run"]
    /\ UNCHANGED <<jobs, nextId, feeds, entries, records, todo, writes,
                   fired, flaky, histVars, groupVars, webVars, call>>

----------------------------------------------------------------------------
\* Run phase: run_jobs

\* Rows locked FOR UPDATE by an open run-phase transaction.
Locked == UNION {Ids(records[r]) : r \in Runners}

ClaimableAnyStatus == {j \in jobs : j.id \notin Locked}

ClaimableIgnoringLocks == {j \in jobs : j.status = "pending"}

\* SELECT ... WHERE status = 'pending' FOR UPDATE SKIP LOCKED
Claimable == {j \in jobs : j.status = "pending" /\ j.id \notin Locked}

\* pool.begin(); the claim query with LIMIT $1.
RunClaim(r) ==
    /\ pc[r] = "run"
    /\ \E s \in SUBSET Claimable :
          /\ Cardinality(s) = Min(RUN_JOBS_LIMIT, Cardinality(Claimable))
          /\ records' = [records EXCEPT ![r] = s]
          /\ todo' = [todo EXCEPT ![r] = s]
          /\ pc' = [pc EXCEPT ![r] = IF s = {} THEN "select" ELSE "loop"]
    /\ UNCHANGED <<jobs, nextId, feeds, entries, mrecords, writes,
                   fired, env, flaky, histVars, groupVars, webVars, call>>

AttemptsExhaustedOffByOne(rec) == rec.attempts > MAX_JOBS_ATTEMPTS

\* 1) Sanity checks: record.attempts >= MAX_JOBS_ATTEMPTS
AttemptsExhausted(rec) == rec.attempts >= MAX_JOBS_ATTEMPTS

\* serde_json::from_value(record.data): the payload decodes into a Job.
Decodable(data) == data.type \in {"FetchFavicon", "RefreshFeed"}

Answers(data) ==
    IF data.type = "FetchFavicon" THEN SiteAnswers ELSE RefreshAnswers(data.feed_id)
HandlerOk(data, ans) == IF data.type = "FetchFavicon" THEN FaviconResult(ans).ok ELSE ans.ok

\* match job { ... }: the handler writes through the pool, outside the transaction.
Dispatch(data, ans) ==
    IF data.type = "FetchFavicon"
    THEN run_fetch_favicon_job(data, ans) /\ UNCHANGED entries
    ELSE run_refresh_feed_job(data, ans) /\ UNCHANGED feeds

\* The statement run_jobs executes in its transaction after the handler returned.
Outcome(ok) == IF ok THEN "delete" ELSE "attempt"

\* One pass of `for record in records`.
RunJob(r) ==
    /\ pc[r] = "loop"
    /\ \E rec \in todo[r] :
          /\ todo' = [todo EXCEPT ![r] = @ \ {rec}]
          /\ IF AttemptsExhausted(rec)
             THEN /\ writes' = [writes EXCEPT ![r] = @ \cup {<<rec.id, "failed">>}]
                  /\ UNCHANGED <<feeds, entries, env, flaky, histVars, groupVars, webVars, call>>
             ELSE \E ans \in IF Decodable(rec.data) THEN Answers(rec.data) ELSE {} :
                     /\ flaky' = IF HandlerOk(rec.data, ans) THEN flaky
                                 ELSE flaky \cup {rec.id}
                     /\ env' = env + Cardinality(flaky' \ flaky)
                     /\ env' <= MaxEnv
                     /\ Dispatch(rec.data, ans)
                     /\ writes' = [writes EXCEPT ![r] =
                                     @ \cup {<<rec.id, Outcome(HandlerOk(rec.data, ans))>>}]
                     /\ invoked' = invoked (+) SetToBag({rec.id})
                     /\ okRows' = IF HandlerOk(rec.data, ans)
                                  THEN okRows \cup {rec.id} ELSE okRows
                     /\ UNCHANGED <<okDone, lost, counted>>
    /\ UNCHANGED <<jobs, nextId, pc, mrecords, records, fired, groupVars, webVars, call>>

ApplyRowDoubleCount(j, ws) ==
    IF <<j.id, "failed">> \in ws THEN [j EXCEPT !.status = "failed"]
    ELSE IF <<j.id, "attempt">> \in ws THEN [j EXCEPT !.attempts = @ + 2]
    ELSE j

\* The table after the transaction's statements are applied.
ApplyRow(j, ws) ==
    IF <<j.id, "failed">> \in ws THEN [j EXCEPT !.status = "failed"]
    ELSE IF <<j.id, "attempt">> \in ws THEN [j EXCEPT !.attempts = @ + 1]
    ELSE j

ApplyKeepingDeleted(rows, ws) == {ApplyRow(j, ws) : j \in rows}

\* What the committed transaction leaves in the table.
Apply(rows, ws) == {ApplyRow(j, ws) : j \in {x \in rows : <<x.id, "delete">> \notin ws}}

\* tx.commit()
RunCommit(r) ==
    /\ pc[r] = "loop"
    /\ todo[r] = {}
    /\ jobs' = Apply(jobs, writes[r])
    /\ okDone' = okDone \cup {w[1] : w \in {x \in writes[r] : x[2] = "delete"}}
    /\ counted' = counted (+)
                    SetToBag({w[1] : w \in {x \in writes[r] : x[2] = "attempt"}})
    /\ records' = [records EXCEPT ![r] = {}]
    /\ writes' = [writes EXCEPT ![r] = {}]
    /\ pc' = [pc EXCEPT ![r] = "select"]
    /\ UNCHANGED <<nextId, feeds, entries, mrecords, todo, fired, env, flaky,
                   invoked, okRows, lost, groupVars, webVars, call>>

RollbackKeepingWrites(rows, ws) == Apply(rows, ws)

\* What a rolled back transaction leaves in the table.
Rollback(rows, ws) == rows

\* A statement of the transaction or its commit fails, or the connection is lost:
\* the transaction is dropped and rolls back; run_jobs returns the error, run()
\* logs it and waits for the next tick.
RunAbort(r) ==
    /\ pc[r] = "loop"
    /\ env < MaxEnv
    /\ env' = env + 1
    /\ jobs' = Rollback(jobs, writes[r])
    /\ records' = [records EXCEPT ![r] = {}]
    /\ todo' = [todo EXCEPT ![r] = {}]
    /\ writes' = [writes EXCEPT ![r] = {}]
    /\ pc' = [pc EXCEPT ![r] = "select"]
    /\ lost' = lost \cup {w[1] : w \in {x \in writes[r] : x[2] # "failed"}}
    /\ UNCHANGED <<nextId, feeds, entries, mrecords, fired, flaky, invoked, okRows,
                   okDone, counted, groupVars, webVars, call>>

\* let job: Job = serde_json::from_value(record.data)?: a payload that does not
\* decode returns the error from run_jobs; the transaction is dropped.
RunDecodeError(r) ==
    /\ pc[r] = "loop"
    /\ \E rec \in todo[r] : ~AttemptsExhausted(rec) /\ ~Decodable(rec.data)
    /\ jobs' = Rollback(jobs, writes[r])
    /\ records' = [records EXCEPT ![r] = {}]
    /\ todo' = [todo EXCEPT ![r] = {}]
    /\ writes' = [writes EXCEPT ![r] = {}]
    /\ pc' = [pc EXCEPT ![r] = "select"]
    /\ lost' = lost \cup {w[1] : w \in {x \in writes[r] : x[2] # "failed"}}
    /\ UNCHANGED <<nextId, feeds, entries, mrecords, fired, env, flaky, invoked,
                   okRows, okDone, counted, groupVars, webVars, call>>

\* ParsedFeed::from_raw_feed takes the first link without rel with remove(0),
\* which panics for a feed document that has none: the panic unwinds through
\* run_jobs (the transaction is dropped) and run(), and ends the runner's task.
RunPanic(r) ==
    /\ pc[r] = "loop"
    /\ env < MaxEnv
    /\ env' = env + 1
    /\ \E rec \in todo[r] :
          /\ ~AttemptsExhausted(rec)
          /\ rec.data.type = "RefreshFeed"
          /\ invoked' = invoked (+) SetToBag({rec.id})
          /\ lost' = lost \cup {rec.id} \cup
                       {w[1] : w \in {x \in writes[r] : x[2] # "failed"}}
    /\ jobs' = Rollback(jobs, writes[r])
    /\ records' = [records EXCEPT ![r] = {}]
    /\ todo' = [todo EXCEPT ![r] = {}]
    /\ writes' = [writes EXCEPT ![r] = {}]
    /\ pc' = [pc EXCEPT ![r] = "panicked"]
    /\ UNCHANGED <<nextId, feeds, entries, mrecords, fired, flaky, okRows, okDone,
                   counted, groupVars, webVars, call>>

\* A row whose payload this version of the program cannot decode: written by
\* another version, or by hand.
UnknownKey == <<"unknown", 0>>
Undecodable == [type |-> "Unknown"]

StaleRow ==
    /\ env < MaxEnv
    /\ env' = env + 1
    /\ ~KeyConflict(jobs, UnknownKey)
    /\ jobs' = jobs \cup {[id |-> <<UnknownKey, nextId[UnknownKey]>>,
                            key |-> UnknownKey, data |-> Undecodable,
                            status |-> "pending", attempts |-> 0]}
    /\ nextId' = [nextId EXCEPT ![UnknownKey] = @ + 1]
    /\ UNCHANGED <<feeds, entries, runnerVars, fired, flaky, histVars, groupVars, webVars, call>>

----------------------------------------------------------------------------
\* The run group: run_serve spawns the application, the job runner and the
\* signal task on one JoinSet and joins them; RunGroup::start does the same for
\* the functions given to RunGroup::run.

UserTasks == {"app", "job_runner"}
GroupTasks == UserTasks \cup {"signal"}

\* The receivers of the broadcast channel: one Shutdown per task that has not
\* returned.
Receivers == {t \in UserTasks : task[t] \in {"running", "notified"}}

\* A task's Shutdown::recv() completes.
TaskNotified(t) ==
    /\ sup = "joining"
    /\ inbox[t] > 0
    /\ task[t] = "running"
    /\ task' = [task EXCEPT ![t] = "notified"]
    /\ inbox' = [inbox EXCEPT ![t] = @ - 1]
    /\ UNCHANGED <<sent, joined, sup, jobVars, webVars, call>>

\* A task's future completes: with Ok(()), or with an error (an Err it returns
\* or a panic, both of which `result??` turns into the supervisor's error).
TaskReturn(t, res) ==
    /\ sup = "joining"
    /\ task[t] \in {"running", "notified"}
    /\ task' = [task EXCEPT ![t] = res]
    /\ UNCHANGED <<sent, joined, sup, inbox, jobVars, webVars, call>>

sendToOne(ib, rs) ==
    [t \in UserTasks |-> IF rs # {} /\ t = CHOOSE x \in rs : TRUE THEN ib[t] + 1 ELSE ib[t]]

\* shutdown_sender.send(()): the value is queued for every receiver subscribed
\* at that moment.
send(ib, rs) == [t \in UserTasks |-> IF t \in rs THEN ib[t] + 1 ELSE ib[t]]

\* The signal task: shutdown_signal() returns, then the notification is sent;
\* broadcast's send is an error when no receiver is left.
SignalTask ==
    /\ sup = "joining"
    /\ task["signal"] = "running"
    /\ IF Receivers = {}
       THEN task' = [task EXCEPT !["signal"] = "err"] /\ UNCHANGED <<sent, inbox>>
       ELSE /\ task' = [task EXCEPT !["signal"] = "ok"]
            /\ sent' = TRUE
            /\ inbox' = send(inbox, Receivers)
    /\ UNCHANGED <<joined, sup, jobVars, webVars, call>>

Finished == {t \in GroupTasks : task[t] \in {"ok", "err"}}

\* Dropping the JoinSet aborts every task that is still on it.
AbortAll(ts) ==
    [t \in GroupTasks |-> IF ts[t] \in {"running", "notified"} THEN "aborted" ELSE ts[t]]

\* One pass of `while let Some(result) = set.join_next().await { result??; }`:
\* an error returns from the supervisor at once, which drops the JoinSet.
JoinNext(t) ==
    /\ sup = "joining"
    /\ t \in Finished \ joined
    /\ joined' = joined \cup {t}
    /\ IF task[t] = "err"
       THEN sup' = "err" /\ task' = AbortAll(task)
       ELSE /\ sup' = IF joined' = GroupTasks THEN "ok" ELSE "joining"
            /\ UNCHANGED task
    /\ UNCHANGED <<sent, inbox, jobVars, webVars, call>>

----------------------------------------------------------------------------
\* The HTTP service: feed-add and manual refresh (routes/feeds.rs)

Idle ==
    [op |-> "none", pc |-> "idle", user |-> "none", url |-> "none", feed |-> 0,
     left |-> {}, owned |-> {}, failed |-> {}]

\* feed_with_url_exists: SELECT f.id FROM feeds f ... WHERE u.id = $1 AND f.url = $2
feed_with_url_exists(user_id, url) ==
    \E row \in feedRows : row.user_id = user_id /\ row.url = url

\* The unique index on feeds(user_id, url): an insert conflicts with a stored row.
FeedUrlConflict(rows, user_id, url) ==
    \E row \in rows : row.user_id = user_id /\ row.url = url

get_all_feeds_of_anyone(user_id) == {row.id : row \in feedRows}

\* get_all_feeds: SELECT ... FROM feeds f INNER JOIN users u ... WHERE u.id = $1
get_all_feeds(user_id) == {row.id : row \in {x \in feedRows : x.user_id = user_id}}

Max(s) == CHOOSE x \in s : \A y \in s : y <= x

\* Feed Store reads. Every query joins feeds to users and filters on the
\* caller's user id.
NotFound == [found |-> FALSE]

\* get_feed: ... FROM feeds f INNER JOIN users u ... WHERE u.id = $1 AND f.id = $2
get_feed(user_id, feed_id) ==
    LET rows == {row \in feedRows : row.user_id = user_id /\ row.id = feed_id}
    IN IF rows = {} THEN NotFound
       ELSE [found |-> TRUE, id |-> feed_id, url |-> (CHOOSE row \in rows : TRUE).url,
             site_favicon |-> feeds[feed_id].site_favicon]

\* get_feed_favicon: SELECT f.site_favicon ... WHERE u.id = $1 AND f.id = $2
get_feed_favicon(user_id, feed_id) ==
    IF \E row \in feedRows : row.user_id = user_id /\ row.id = feed_id
    THEN feeds[feed_id].site_favicon ELSE "null"

get_feed_entries_of_any_user(user_id, feed_id) ==
    {e \in BagToSet(entries) : e[1] = feed_id}

\* get_feed_entries: ... FROM feeds f INNER JOIN feed_entries fe ON fe.feed_id = f.id
\* INNER JOIN users u ... WHERE u.id = $1 AND f.id = $2
get_feed_entries(user_id, feed_id) ==
    {e \in BagToSet(entries) :
        \E row \in feedRows : /\ e[1] = row.id
                              /\ row.user_id = user_id
                              /\ row.id = feed_id}

\* get_feed_entry: the same joins, AND fe.id = $3
get_feed_entry(user_id, feed_id, entry_id) ==
    IF \E e \in BagToSet(entries) : \E row \in feedRows :
          /\ e[1] = row.id
          /\ row.user_id = user_id
          /\ row.id = feed_id
          /\ e = entry_id
    THEN [found |-> TRUE, entry |-> entry_id] ELSE NotFound


\* handle_feeds_add is called: the URL is fetched and resolves to the feed `url`.
\* (A URL that is invalid, cannot be fetched or holds no feed returns the error
\* redirect before the database is touched.)
AddStart(q, u, url) ==
    /\ req[q].pc = "idle"
    /\ env < MaxEnv
    /\ env' = env + 1
    /\ req' = [req EXCEPT ![q] = [Idle EXCEPT !.op = "add", !.pc = "check",
                                               !.user = u, !.url = url]]
    /\ UNCHANGED <<jobs, nextId, feeds, entries, runnerVars, fired, flaky, histVars,
                   groupVars, call, feedRows, readAt>>

\* 3) Check if the feed already exists: if so, the redirect with
\* FeedAlreadyExists.
AddCheck(q) ==
    /\ req[q].pc = "check"
    /\ req' = [req EXCEPT ![q].pc =
                  IF feed_with_url_exists(req[q].user, req[q].url)
                  THEN "exists" ELSE "insert"]
    /\ UNCHANGED <<jobs, nextId, feeds, entries, runnerVars, fired, env, flaky,
                   histVars, groupVars, call, feedRows, readAt>>

AddInsertUnchecked(q) ==
    /\ req[q].pc = "insert"
    /\ feedRows' = feedRows \cup
                      {[id |-> Cardinality(feedRows) + 1,
                        user_id |-> req[q].user, url |-> req[q].url]}
    /\ req' = [req EXCEPT ![q].pc = "favicon", ![q].feed = Cardinality(feedRows) + 1]
    /\ UNCHANGED <<jobs, nextId, feeds, entries, runnerVars, fired, env, flaky,
                   histVars, groupVars, call, readAt>>

\* 4) Insert the feed: INSERT INTO feeds(...) RETURNING id
AddInsert(q) ==
    /\ req[q].pc = "insert"
    /\ IF FeedUrlConflict(feedRows, req[q].user, req[q].url)
       THEN /\ req' = [req EXCEPT ![q].pc = "error"]
            /\ UNCHANGED feedRows
       ELSE /\ feedRows' = feedRows \cup
                              {[id |-> Cardinality(feedRows) + 1,
                                user_id |-> req[q].user, url |-> req[q].url]}
            /\ req' = [req EXCEPT ![q].pc = "favicon",
                                  ![q].feed = Cardinality(feedRows) + 1]
    /\ UNCHANGED <<jobs, nextId, feeds, entries, runnerVars, fired, env, flaky,
                   histVars, groupVars, call, readAt>>

\* The exists query or the insert fails: the error redirect.
AddFail(q) ==
    /\ req[q].pc \in {"check", "insert"}
    /\ env < MaxEnv
    /\ env' = env + 1
    /\ req' = [req EXCEPT ![q].pc = "error"]
    /\ UNCHANGED <<jobs, nextId, feeds, entries, runnerVars, fired, flaky, histVars,
                   groupVars, call, feedRows, readAt>>

\* An enqueue by a handler, on the pool: it stores the job or fails.
Enqueue(job, ok) ==
    IF ok THEN post_job(job) /\ UNCHANGED env
    ELSE env < MaxEnv /\ env' = env + 1 /\ UNCHANGED <<jobs, nextId>>

AddFaviconFatal(q, ok) ==
    /\ req[q].pc = "favicon"
    /\ Enqueue(FetchFavicon(req[q].feed), ok)
    /\ req' = [req EXCEPT ![q].pc = IF ok THEN "refresh" ELSE "error",
                          ![q].failed = IF ok THEN @ ELSE @ \cup {"favicon"}]
    /\ UNCHANGED <<feeds, entries, runnerVars, fired, flaky, histVars, groupVars, call,
                   feedRows, readAt>>

\* 5) if let Err(err) = add_fetch_favicon_job(...) { warn!(...) }
AddFavicon(q, ok) ==
    /\ req[q].pc = "favicon"
    /\ Enqueue(FetchFavicon(req[q].feed), ok)
    /\ req' = [req EXCEPT ![q].pc = "refresh",
                          ![q].failed = IF ok THEN @ ELSE @ \cup {"favicon"}]
    /\ UNCHANGED <<feeds, entries, runnerVars, fired, flaky, histVars, groupVars, call,
                   feedRows, readAt>>

\* if let Err(err) = add_refresh_feed_job(...) { warn!(...) }; Ok(see_other("/feeds"))
AddRefresh(q, ok) ==
    /\ req[q].pc = "refresh"
    /\ Enqueue(RefreshFeed(req[q].feed), ok)
    /\ req' = [req EXCEPT ![q].pc = "ok",
                          ![q].failed = IF ok THEN @ ELSE @ \cup {"refresh"}]
    /\ UNCHANGED <<feeds, entries, runnerVars, fired, flaky, histVars, groupVars, call,
                   feedRows, readAt>>

\* handle_feeds_refresh is called: pool.begin(); get_all_feeds(&mut tx, &user_id)
RefreshStart(q, u) ==
    /\ req[q].pc = "idle"
    /\ env < MaxEnv
    /\ env' = env + 1
    /\ req' = [req EXCEPT ![q] =
                  [Idle EXCEPT !.op = "refresh", !.user = u,
                               !.pc = IF get_all_feeds(u) = {} THEN "commit" ELSE "enqueue",
                               !.owned = get_all_feeds(u), !.left = get_all_feeds(u)]]
    /\ UNCHANGED <<jobs, nextId, feeds, entries, runnerVars, fired, flaky, histVars,
                   groupVars, call, feedRows, readAt>>

\* One pass of `for feed in feeds { add_refresh_feed_job(pool, ...) }`, in the
\* order of the query (added_at DESC): the enqueue is on the pool, outside tx.
RefreshEnqueue(q) ==
    /\ req[q].pc = "enqueue"
    /\ post_job(RefreshFeed(Max(req[q].left)))
    /\ req' = [req EXCEPT ![q].left = @ \ {Max(req[q].left)},
                          ![q].pc = IF req[q].left = {Max(req[q].left)}
                                    THEN "commit" ELSE "enqueue"]
    /\ UNCHANGED <<feeds, entries, runnerVars, fired, env, flaky, histVars,
                   groupVars, call, feedRows, readAt>>

\* tx.commit(); the success redirect.
RefreshCommit(q) ==
    /\ req[q].pc = "commit"
    /\ req' = [req EXCEPT ![q].pc = "ok"]
    /\ UNCHANGED <<jobs, nextId, feeds, entries, runnerVars, fired, env, flaky,
                   histVars, groupVars, call, feedRows, readAt>>

\* An enqueue or the commit fails: the error redirect; what was enqueued stays.
RefreshFail(q) ==
    /\ req[q].pc \in {"enqueue", "commit"}
    /\ env < MaxEnv
    /\ env' = env + 1
    /\ req' = [req EXCEPT ![q].pc = "error"]
    /\ UNCHANGED <<jobs, nextId, feeds, entries, runnerVars, fired, flaky, histVars,
                   groupVars, call, feedRows, readAt>>

----------------------------------------------------------------------------
\* Job::key and the feed parser, as functions of their input

\* The ASCII bytes that write!(hasher, "...") absorbs.
TagBytes(type) ==
    IF type = "FetchFavicon"
    THEN <<102, 101, 116, 99, 104, 95, 102, 97, 118, 105, 99, 111, 110>>
    ELSE <<114, 101, 102, 114, 101, 115, 104, 95, 102, 101, 101, 100>>

\* From<FeedId> for [u8; 8]: id.0.to_le_bytes(), the two's complement of an i64
\* (here for ids that fit 32 bits: the upper bytes are the sign).
LeBytes(id) ==
    [i \in 1..8 |-> IF i <= 4 THEN (id \div (256 ^ (i - 1))) % 256
                    ELSE IF id < 0 THEN 255 ELSE 0]

KeyBytesWithoutTag(job) == LeBytes(job.feed_id)

\* Job::key: everything the Blake2b512 hasher absorbs before finalize(). The
\* hash is taken as free of collisions, so two keys are equal exactly when
\* these byte strings are.
KeyBytes(job) == TagBytes(job.type) \o LeBytes(job.feed_id)

\* The payloads Job::key is called with.
KeyFeedIds == {-1, 0, 1, 2, 255, 256, 65536}
KeyInputs ==
    [type : {"FetchFavicon", "RefreshFeed"}, user_id : Users,
     feed_id : KeyFeedIds, link : Urls]

\* Job::key of two payloads. (The calls of this section do not depend on one
\* another: a behaviour holds one.)
JobKey(p1, p2) ==
    /\ call.fn = "none"
    /\ call' = [fn |-> "key", in |-> <<p1, p2>>, out |-> <<KeyBytes(p1), KeyBytes(p2)>>]
    /\ UNCHANGED <<jobVars, groupVars, webVars>>

\* feed_rs's links of a feed document: each has an href and may have a rel.
Links == [rel : {"none", "self"}, href : Urls]
LinkLists == UNION {[1..n -> Links] : n \in 0..MaxLinks}

HasNoRel(link) == link.rel = "none"

\* ParsedFeed::from_raw_feed (feed.rs): the hrefs of the links without rel are
\* collected and remove(0) takes the first, which panics on an empty Vec.
from_raw_feed(links) ==
    LET hrefs == SelectSeq(links, HasNoRel)
    IN IF hrefs = <<>> THEN "panic" ELSE hrefs[1].href

\* ParsedFeed::get_site_link (parsed_feed.rs): the loop skips every link whose
\* rel is None and keeps the href of the last link it did not skip.
get_site_link(links) ==
    LET kept == SelectSeq(links, LAMBDA link : ~HasNoRel(link))
    IN IF kept = <<>> THEN "None" ELSE kept[Len(kept)].href

\* A feed document is turned into a ParsedFeed by feed.rs.
FromRawFeed(links) ==
    /\ call.fn = "none"
    /\ call' = [fn |-> "from_raw_feed", in |-> links, out |-> from_raw_feed(links)]
    /\ UNCHANGED <<jobVars, groupVars, webVars>>

\* A feed document is turned into a ParsedFeed by parsed_feed.rs.
GetSiteLink(links) ==
    /\ call.fn = "none"
    /\ call' = [fn |-> "get_site_link", in |-> links, out |-> get_site_link(links)]
    /\ UNCHANGED <<jobVars, groupVars, webVars>>

----------------------------------------------------------------------------

\* The <link> elements of an HTML document. An href is known by whether it has
\* a scheme ("https://h/feed", "ftp://h/feed") and whether its text starts with
\* "http" ("https://h/feed", "http-feeds/rss.xml").
FeedTypes == {"application/rss+xml", "application/atom+xml"}
Hrefs == [scheme : BOOLEAN, http : BOOLEAN]
HtmlLinks == [type : FeedTypes \cup {"text/css"}, href : Hrefs]
\* The bytes find_feed is given: they parse as a feed or not, and the <link>
\* elements they hold in document order.
FeedData == [feed : BOOLEAN, links : UNION {[1..n -> HtmlLinks] : n \in 0..MaxLinks}]

\* Url::join: an href with a scheme is taken as it is, any other is resolved
\* against the base.
UrlJoin(url, href) == IF href.scheme THEN [base |-> "none", href |-> href]
                      ELSE [base |-> url, href |-> href]
\* Url::parse: an href without a scheme is an error (relative URL without a base).
UrlParse(href) == IF href.scheme THEN [ok |-> TRUE, url |-> [base |-> "none", href |-> href]]
                  ELSE [ok |-> FALSE]
\* find_link_in_document, the href of one link: joined to the base unless its
\* text starts with "http", parsed alone when it does.
LinkUrl(url, link) ==
    IF ~link.href.http THEN [ok |-> TRUE, url |-> UrlJoin(url, link.href)]
    ELSE UrlParse(link.href)

\* find_link_in_document with FindLinkCriteria::AnyType(types): the links are
\* visited in document order; one whose href gave no URL is skipped, and the
\* first of the others whose type is one of `types` is returned.
find_link_in_document(url, links, types) ==
    LET hits == {i \in 1..Len(links) :
                    LinkUrl(url, links[i]).ok /\ links[i].type \in types}
    IN IF hits = {} THEN [some |-> FALSE]
       ELSE [some |-> TRUE,
             url |-> LinkUrl(url, links[CHOOSE i \in hits : \A j \in hits : i <= j]).url]

\* find_feed: a raw feed when the bytes parse as one, else the link found in
\* the HTML document, else FindError::NoFeed.
find_feed(url, data) ==
    IF data.feed THEN [tag |-> "Raw"]
    ELSE IF find_link_in_document(url, data.links, FeedTypes).some
         THEN [tag |-> "Url", url |-> find_link_in_document(url, data.links, FeedTypes).url]
         ELSE [tag |-> "NoFeed"]

\* The page at `url` was fetched and is handed to find_feed.
FindFeed(url, data) ==
    /\ call.fn = "none"
    /\ call' = [fn |-> "find_feed", in |-> [url |-> url, data |-> data],
                out |-> find_feed(url, data)]
    /\ UNCHANGED <<jobVars, groupVars, webVars>>

\* The entry ids a request can name: an entry is known by its feed and its
\* external id.
EntryIds == StoredFeeds \X ExtIds

\* mark_feed_entry_as_read: UPDATE feed_entries SET read_at = now() FROM feeds f
\* INNER JOIN users u ON f.user_id = u.id
\* WHERE u.id = $1 AND f.id = $2 AND feed_entries.id = $3
\* The feed row is joined to the user only: nothing relates feed_entries.feed_id
\* to f.id.
mark_feed_entry_as_read(user_id, feed_id, entry_id) ==
    readAt' = readAt \cup
        {e \in BagToSet(entries) :
            /\ e = entry_id
            /\ \E row \in feedRows : row.user_id = user_id /\ row.id = feed_id}

\* One call of mark_feed_entry_as_read on the store.
MarkFeedEntryAsRead(u, f, e) ==
    /\ call.fn = "none"
    /\ mark_feed_entry_as_read(u, f, e)
    /\ call' = [fn |-> "mark_feed_entry_as_read",
                in |-> [user_id |-> u, feed_id |-> f, entry_id |-> e]]
    /\ UNCHANGED <<jobVars, groupVars, feedRows, req>>

\* handle_feed_entry: get_feed and get_feed_entry are read first, in the same
\* transaction, and a missing row redirects before the UPDATE.
HandleFeedEntry(u, f, e) ==
    /\ call.fn = "none"
    /\ IF get_feed(u, f).found /\ get_feed_entry(u, f, e).found
       THEN mark_feed_entry_as_read(u, f, e)
       ELSE UNCHANGED readAt
    /\ call' = [fn |-> "handle_feed_entry",
                in |-> [user_id |-> u, feed_id |-> f, entry_id |-> e]]
    /\ UNCHANGED <<jobVars, groupVars, feedRows, req>>

\* One call of run_fetch_favicon_job for feed f against a site that answers
\* with ans: its effect on the feeds table, and what it returns.
RunFetchFaviconJob(f, ans) ==
    /\ call.fn = "none"
    /\ run_fetch_favicon_job(FetchFavicon(f), ans)
    /\ call' = [fn |-> "run_fetch_favicon_job", in |-> [feed_id |-> f, ans |-> ans],
                out |-> FaviconResult(ans)]
    /\ UNCHANGED <<jobs, nextId, entries, runnerVars, fired, env, flaky, histVars,
                   groupVars, webVars>>

Init ==
    /\ jobs = {}
    /\ nextId = [k \in {key(FetchFavicon(f)) : f \in AllFeeds} \cup
                        {key(RefreshFeed(f)) : f \in AllFeeds} \cup {UnknownKey} |-> 1]
    /\ feeds = [f \in AllFeeds |->
                  IF f \in Feeds \ NewFeeds
                  THEN [has_favicon |-> "yes", site_favicon |-> "icon"]
                  ELSE IF f \in StoredFeeds \ Feeds
                  THEN [has_favicon |-> "no", site_favicon |-> "null"]
                  ELSE [has_favicon |-> "unknown", site_favicon |-> "null"]]
    /\ feedRows = {[id |-> f, user_id |-> FeedOwner[f], url |-> FeedUrl[f]] :
                       f \in StoredFeeds}
    /\ req = [q \in Requests |-> Idle]
    /\ readAt = {}
    /\ call = [fn |-> "none"]
    /\ entries = SetToBag({<<f, e>> : f \in Feeds \ NewFeeds, e \in ExtIds} \cap
                            UNION {{<<f, e>> : e \in Source[f]} : f \in Feeds})
    /\ pc = [r \in Runners |-> "select"]
    /\ mrecords = [r \in Runners |-> {}]
    /\ records = [r \in Runners |-> {}]
    /\ todo = [r \in Runners |-> {}]
    /\ writes = [r \in Runners |-> {}]
    /\ fired = FALSE
    /\ env = 0
    /\ flaky = {}
    /\ invoked = EmptyBag
    /\ okRows = {}
    /\ okDone = {}
    /\ lost = {}
    /\ counted = EmptyBag
    /\ task = [t \in GroupTasks |-> "running"]
    /\ sent = FALSE
    /\ joined = {}
    /\ sup = "joining"
    /\ inbox = [t \in UserTasks |-> 0]

RunnerStep(r) ==
    \/ SelectTick(r)
    \/ SelectShutdown(r)
    \/ ManageQuery(r)
    \/ ManagePost(r)
    \/ ManageFail(r)
    \/ RunClaim(r)
    \/ RunJob(r)
    \/ RunCommit(r)
    \/ RunAbort(r)
    \/ RunDecodeError(r)
    \/ RunPanic(r)

Next ==
    \/ \E job \in JobPayloads : HttpPost(job)
    \/ ShutdownSignal
    \/ StaleRow
    \/ \E r \in Runners : RunnerStep(r)

Spec == Init /\ [][Next]_vars

FairSpec == Spec /\ \A r \in Runners : WF_vars(RunnerStep(r))

GroupNext ==
    \/ \E t \in UserTasks : TaskNotified(t)
    \/ \E t \in UserTasks, res \in {"ok", "err"} : TaskReturn(t, res)
    \/ SignalTask
    \/ \E t \in GroupTasks : JoinNext(t)

GroupSpec == Init /\ [][GroupNext]_vars

\* Every task is scheduled, and the signal is delivered.
GroupFairSpec == GroupSpec /\ WF_vars(GroupNext)

RequestStep(q) ==
    \/ \E u \in Users, url \in Urls : AddStart(q, u, url)
    \/ AddCheck(q)
    \/ AddInsert(q)
    \/ AddFail(q)
    \/ \E ok \in BOOLEAN : AddFavicon(q, ok)
    \/ \E ok \in BOOLEAN : AddRefresh(q, ok)
    \/ \E u \in Users : RefreshStart(q, u)
    \/ RefreshEnqueue(q)
    \/ RefreshCommit(q)
    \/ RefreshFail(q)

WebNext == \E q \in Requests : RequestStep(q)

WebSpec == Init /\ [][WebNext]_vars

\* Manual refreshes next to a job runner whose ticks meet no failure.
RefreshNext ==
    \/ \E q \in Requests, u \in Users : RefreshStart(q, u)
    \/ \E q \in Requests : RefreshEnqueue(q)
    \/ \E q \in Requests : RefreshCommit(q)
    \/ \E q \in Requests : RefreshFail(q)
    \/ SelectTick("r1")
    \/ ManageQuery("r1")
    \/ ManagePost("r1")
    \/ RunClaim("r1")
    \/ RunJob("r1")
    \/ RunCommit("r1")

RefreshSpec == Init /\ [][RefreshNext]_vars

FunNext ==
    \/ \E p1, p2 \in KeyInputs : JobKey(p1, p2)
    \/ \E links \in LinkLists : FromRawFeed(links)
    \/ \E links \in LinkLists : GetSiteLink(links)
    \/ \E f \in Feeds, ans \in SiteAnswers : RunFetchFaviconJob(f, ans)
    \/ \E url \in Urls, data \in FeedData : FindFeed(url, data)
    \/ \E u \in Users, f \in StoredFeeds, e \in EntryIds : MarkFeedEntryAsRead(u, f, e)
    \/ \E u \in Users, f \in StoredFeeds, e \in EntryIds : HandleFeedEntry(u, f, e)

FunSpec == Init /\ [][FunNext]_vars

----------------------------------------------------------------------------
\* Properties

RowsWithKey(rows, k) == {j \in rows : j.key = k}
Invocations(id) == CopiesIn(id, invoked)
FaviconKey(f) == <<"fetch_favicon", f>>
RefreshKey(f) == <<"refresh_feed", f>>

\* C1: after an enqueue of payload P, by an HTTP handler or a runner, the jobs
\* table holds exactly one row with the fingerprint of P, and never two rows with
\* one fingerprint.
C1_EnqueueIdempotent ==
    [][/\ \A job \in JobPayloads :
            post_job(job) => Cardinality(RowsWithKey(jobs', key(job))) = 1
       /\ \A j1, j2 \in jobs' : j1.key = j2.key => j1 = j2]_vars

\* Both runners enqueued FetchFavicon for feed 1 in their Manage phase; one row
\* was inserted.
C1_Witness ==
    /\ env = 0
    /\ \A r \in Runners : pc[r] = "run"
    /\ nextId[FaviconKey(1)] = 2
    /\ Cardinality(RowsWithKey(jobs, FaviconKey(1))) = 1

\* C2: a claim returns at most RUN_JOBS_LIMIT rows, all pending, and no row is
\* held by the open transactions of two runners.
C2_NoDoubleClaim ==
    /\ \A r1, r2 \in Runners :
          r1 # r2 => Ids(records[r1]) \cap Ids(records[r2]) = {}
    /\ \A r \in Runners :
          /\ Cardinality(records[r]) <= RUN_JOBS_LIMIT
          /\ \A rec \in records[r] : rec \in jobs /\ rec.status = "pending"

\* Two runners hold a row each.
C2_Witness == \A r \in Runners : records[r] # {}

\* C3 as stated: a job marked failed whose handler never succeeded had its
\* handler invoked exactly MAX_JOBS_ATTEMPTS times.
C3_ExactlyMaxInvocations ==
    \A j \in jobs :
        j.status = "failed" /\ j.id \notin okRows
            => Invocations(j.id) = MAX_JOBS_ATTEMPTS

\* The handler of row id has run in a transaction that is still open.
InFlight(id) ==
    IF \E r \in Runners : \E w \in writes[r] : w[1] = id /\ w[2] # "failed"
    THEN 1 ELSE 0

\* C3, amended: a job is marked failed exactly when it is claimed with
\* attempts = MAX_JOBS_ATTEMPTS, and then without a handler invocation; below
\* that the handler is invoked. attempts counts the invocations whose tick
\* committed: a failed job was invoked MAX_JOBS_ATTEMPTS times, and more only
\* if a tick rolled back after its handler ran.
C3_RetryBound ==
    /\ \A j \in jobs :
          /\ j.attempts <= MAX_JOBS_ATTEMPTS
          /\ j.attempts + InFlight(j.id) <= Invocations(j.id)
          /\ j.id \notin lost => Invocations(j.id) = j.attempts + InFlight(j.id)
          /\ j.status = "failed" => j.attempts = MAX_JOBS_ATTEMPTS
    /\ \A r \in Runners : \A w \in writes[r] :
          (w[2] = "failed") <=> (Row(w[1]).attempts = MAX_JOBS_ATTEMPTS)

\* A job whose handler never succeeded, and no tick of which rolled back, is
\* marked failed.
C3_Witness ==
    \E j \in jobs : j.status = "failed" /\ j.id \notin okRows /\ j.id \notin lost

\* C4 as stated: once its handler has succeeded, a row is visible to no reader
\* and its handler is not invoked again.
C4_NoRowAfterSuccess ==
    /\ [](\A id \in okRows : id \notin Ids(jobs))
    /\ [][\A id \in okRows : Invocations(id)' = Invocations(id)]_vars

\* C4, amended: once the transaction of a successful invocation has committed,
\* the row is gone for good, no runner holds it and its handler is not invoked
\* again; until then the row stays in the table as it was claimed.
C4_DeletedOnCommit ==
    /\ [](\A id \in okDone : id \notin Ids(jobs) /\ id \notin Locked)
    /\ [](\A r \in Runners : \A w \in writes[r] :
             w[2] = "delete" => \E rec \in records[r] :
                 rec.id = w[1] /\ rec \in jobs /\ rec.status = "pending")
    /\ [][\A id \in okDone : Invocations(id)' = Invocations(id)]_vars

\* A successful invocation was committed.
C4_Witness == okDone # {}

\* The step of runner r is a rollback of its open transaction.
IsAbort(r) == pc[r] = "loop" /\ pc'[r] = "select" /\ env' # env

\* C5: when a run-phase transaction is dropped before its commit, every row it
\* claimed stays in the table with the status and attempts it had, unlocked and
\* claimable; a row leaves the table only after its handler succeeded.
C5_AbortKeepsRows ==
    [][/\ \A r \in Runners :
            IsAbort(r) => /\ records[r] \subseteq jobs'
                          /\ records[r] \subseteq Claimable'
       /\ \A j \in jobs : j.id \notin Ids(jobs') => j.id \in okRows]_vars

\* A row whose handler ran in a transaction that was rolled back: invoked more
\* often than its attempts tell, and not locked.
C5_Witness ==
    \E j \in jobs :
        j.id \in lost /\ j.id \notin Locked /\ Invocations(j.id) > j.attempts

ExternalIds(f) == {e[2] : e \in {x \in BagToSet(entries) : x[1] = f}}

\* C6: after a successful RefreshFeed of feed f, the external ids of its entries
\* are those of its source.
C6_EntriesEqualSource ==
    \A f \in Feeds :
        (\E id \in okRows : id[1] = RefreshKey(f)) => ExternalIds(f) = Source[f]

\* C7: as long as some runner keeps ticking, has_favicon of every feed
\* eventually leaves unknown.
C7_FaviconDecided ==
    \A f \in Feeds :
        []<>(\E r \in Runners : pc[r] = "manage")
            => <>(feeds[f].has_favicon # "unknown")

\* C8: the Manage phase inserts a FetchFavicon job only for a feed whose
\* has_favicon is unknown at the insert.
C8_ManageOnlyUnknown ==
    [][\A r \in Runners :
          pc[r] = "post" /\ mrecords'[r] # mrecords[r] =>
              \A j \in jobs' \ jobs : feeds[j.data.feed_id].has_favicon = "unknown"]_vars

\* C9: once the shutdown broadcast was sent, no runner starts a tick.
C9_NoTickAfterShutdown ==
    [][fired => \A r \in Runners : ~(pc[r] = "select" /\ pc'[r] = "manage")]_vars

\* C10: the supervisor returns an error only when every other spawned task has
\* stopped by itself; no task is aborted or left running.
C10_ErrorAfterPeersStopped ==
    sup = "err" => \A t \in GroupTasks : task[t] \in {"ok", "err"}

\* C11: if no task of the group returns an error, then once the signal is
\* delivered the supervisor eventually returns Ok.
C11_ShutdownReturnsOk ==
    [](\A t \in UserTasks : task[t] # "err") => <>(sup = "ok")

\* C12: once the notification is broadcast, every task that still waits on its
\* shutdown observer has the notification in its receiver, and a task is
\* notified only of a broadcast that was sent.
C12_NoObserverMissesBroadcast ==
    \A t \in UserTasks :
        /\ sent /\ task[t] = "running" => inbox[t] = 1
        /\ task[t] = "notified" => sent /\ inbox[t] = 0

\* Every task of the group has observed the broadcast.
C12_Witness == sent /\ \A t \in UserTasks : task[t] = "notified"

\* The step is the enqueue of runner r's Manage phase.
IsManagePost(r) == pc[r] = "post" /\ mrecords'[r] # mrecords[r] /\ env' = env

\* The step is an enqueue by an HTTP handler that changes the table.
IsHttpPost == jobs' # jobs /\ env' # env

\* C13: an enqueue leaves every row of the table as it is, whatever its status,
\* and stores a row only for a fingerprint that no row has; so a failed row is
\* not made pending again and gets no pending twin.
C13_ConflictIsNoOp ==
    [][IsHttpPost \/ (\E r \in Runners : IsManagePost(r)) =>
          /\ jobs \subseteq jobs'
          /\ \A j \in jobs' \ jobs : ~KeyConflict(jobs, j.key)]_vars

\* The FetchFavicon job of feed 1 has failed and both runners have since been
\* through the enqueue of their Manage phase; the runner that committed the
\* failure did so before its enqueue.
C13_Witness ==
    /\ env = 1
    /\ \A r \in Runners : pc[r] = "run"
    /\ feeds[1].has_favicon = "unknown"
    /\ nextId[FaviconKey(1)] = 2
    /\ \E j \in jobs : j.key = FaviconKey(1) /\ j.status = "failed"

\* C14: the id returned by an enqueue names a row of the table.
C14_ReturnedIdNamesRow ==
    [][\A r \in Runners :
          IsManagePost(r) =>
              \A f \in mrecords[r] \ mrecords'[r] :
                  PostResult(FetchFavicon(f)) \in Ids(jobs')]_vars

\* C15: attempts of every row is between 0 and MAX_JOBS_ATTEMPTS and equals the
\* number of committed ticks in which the row's handler failed; a failed row has
\* attempts = MAX_JOBS_ATTEMPTS; attempts of a row never decreases.
C15_AttemptsCountCommittedFailures ==
    /\ [](\A j \in jobs :
             /\ j.attempts \in 0 .. MAX_JOBS_ATTEMPTS
             /\ j.attempts = CopiesIn(j.id, counted)
             /\ j.status = "failed" => j.attempts = MAX_JOBS_ATTEMPTS)
    /\ [][\A j \in jobs : \A j2 \in jobs' :
             j2.id = j.id => j2.attempts >= j.attempts]_vars

\* Two failures of a row were committed, and a tick in which its handler ran
\* was rolled back.
C15_Witness == \E j \in jobs : j.attempts = 2 /\ j.id \in lost

\* C16: a failed row is held by no runner and is not among the rows a claim
\* selects from; every step leaves it in the table as it is, and its handler is
\* not invoked.
C16_FailedIsTerminal ==
    /\ [](\A j \in jobs :
             j.status = "failed" => j.id \notin Locked /\ j \notin Claimable)
    /\ [][\A j \in jobs :
             j.status = "failed" =>
                 j \in jobs' /\ Invocations(j.id)' = Invocations(j.id)]_vars

\* A failed row is in the table and every runner is inside a tick, so the
\* runner that committed the failure has started a tick since.
C16_Witness ==
    /\ \E j \in jobs : j.status = "failed"
    /\ \A r \in Runners : pc[r] \in {"manage", "post", "run"}
    /\ \E r \in Runners : pc[r] = "run"

\* The step ends a tick of runner r without a database failure.
IsTickEnd(r) == pc[r] = "loop" /\ pc'[r] = "select" /\ env' = env

\* C17: a tick that claimed a row whose payload does not decode counts one
\* failed attempt for it.
C17_DecodeFailureCounts ==
    [][\A r \in Runners :
          IsTickEnd(r) =>
              \A rec \in records[r] :
                  ~Decodable(rec.data) /\ ~AttemptsExhausted(rec) =>
                      \E j \in jobs' : j.id = rec.id /\ j.attempts = rec.attempts + 1]_vars

\* C18: the task of a job runner ends only by run() returning after the
\* shutdown broadcast.
C18_RunnerEndsOnlyOnShutdown ==
    \A r \in Runners :
        /\ pc[r] \in {"select", "manage", "post", "run", "loop", "stopped"}
        /\ pc[r] = "stopped" => fired

\* A RefreshFeed of feed f has succeeded.
Refreshed(f) == \E id \in okRows : id[1] = RefreshKey(f)

\* C19: no step removes a feed entry row, and once a refresh of a feed has
\* succeeded a further refresh against the same source adds no row to it.
C19_RefreshOnlyAdds ==
    [][/\ entries \sqsubseteq entries'
       /\ \A f \in Feeds :
             Refreshed(f) =>
                 \A e \in ExtIds :
                     CopiesIn(<<f, e>>, entries') = CopiesIn(<<f, e>>, entries)]_vars

\* Two RefreshFeed jobs of feed 1 have succeeded, one after the other.
C19_Witness ==
    \E i1, i2 \in okRows :
        i1 # i2 /\ i1[1] = RefreshKey(1) /\ i2[1] = RefreshKey(1)

\* C20: in every state has_favicon of a feed is yes exactly when its
\* site_favicon is not null.
C20_FaviconColumnsAgree ==
    \A f \in Feeds : feeds[f].has_favicon = "yes" <=> feeds[f].site_favicon # "null"

\* FetchFavicon has recorded that feed 1 has no favicon, next to a feed that
\* has one.
C20_Witness ==
    /\ feeds[1].has_favicon = "no"
    /\ \E f \in Feeds : feeds[f].has_favicon = "yes"

\* Runner r's step is an invocation of the FetchFavicon handler for feed f, after
\* which run_jobs executes statement `out` (delete after Ok, attempt after Err).
IsFaviconRun(r, f, out) ==
    /\ pc[r] = "loop"
    /\ \E rec \in todo[r] \ todo'[r] :
          /\ rec.data.type = "FetchFavicon"
          /\ rec.data.feed_id = f
          /\ <<rec.id, out>> \in writes'[r] \ writes[r]

\* What the handler leaves in a feed row when it hands `favicon` to set_favicon.
Stored(favicon) ==
    [has_favicon |-> IF favicon = "null" THEN "no" ELSE "yes", site_favicon |-> favicon]

FetchFaviconRows(f) ==
    {j \in jobs : j.data.type = "FetchFavicon" /\ j.data.feed_id = f}

\* C22: whatever the runners' Manage phases do, concurrently or repeatedly, the
\* jobs table never holds two FetchFavicon rows of one feed.
C22_OneFaviconJobPerFeed ==
    \A f \in Feeds : Cardinality(FetchFaviconRows(f)) <= 1

\* Both runners went through Manage again after the FetchFavicon job of feed 1
\* had failed once and was committed: the row is still the only one.
C22_Witness ==
    /\ env = 1
    /\ \A r \in Runners : pc[r] = "run" /\ records[r] = {}
    /\ nextId[FaviconKey(1)] = 2
    /\ \E j \in FetchFaviconRows(1) : j.attempts = 1

\* C23: the shutdown branch is taken only between ticks: a runner leaves its
\* loop from the select, never from inside the Manage or the Run phase, and a
\* runner that has left holds no claimed row and no open transaction.
C23_TickNotInterrupted ==
    /\ [](\A r \in Runners :
            pc[r] = "stopped" =>
                mrecords[r] = {} /\ records[r] = {} /\ todo[r] = {} /\ writes[r] = {})
    /\ [][\A r \in Runners :
            pc'[r] = "stopped" /\ pc[r] # "stopped" => pc[r] = "select"]_vars

\* The signal was sent and one runner has left its loop; the other is inside
\* the Run phase of a tick, past its handler, with its transaction still open.
C23_Witness ==
    /\ fired
    /\ pc["r1"] = "stopped"
    /\ pc["r2"] = "loop" /\ todo["r2"] = {} /\ writes["r2"] # {}

\* Request q is a feed-add that has inserted no feed row.
AddWithoutInsert(q) == req[q].op = "add" /\ req[q].feed = 0

\* C24: the feeds table never holds two rows with one (user_id, url), however
\* feed-add requests interleave; a step of a feed-add for a URL its user already
\* has inserts no feed row and no job, and the request ends in an error redirect.
C24_FeedUrlUnique ==
    /\ [](\A row1, row2 \in feedRows :
            row1.user_id = row2.user_id /\ row1.url = row2.url => row1 = row2)
    /\ [][\A q \in Requests :
            /\ AddWithoutInsert(q)
            /\ req'[q] # req[q]
            /\ feed_with_url_exists(req[q].user, req[q].url)
            => /\ feedRows' = feedRows
               /\ jobs' = jobs
               /\ req'[q].pc \in {"exists", "error"}]_vars

\* Two feed-adds of u2 for URL b both passed the exists check; one inserted the
\* feed, the insert of the other was refused.
C24_Witness ==
    /\ env = 2
    /\ req["q1"].op = "add" /\ req["q1"].pc = "error"
    /\ req["q2"].op = "add" /\ req["q2"].feed # 0
    /\ req["q1"].user = req["q2"].user /\ req["q1"].url = req["q2"].url

\* C25: a feed-add that inserted feed F goes on to enqueue FetchFavicon and then
\* RefreshFeed of F and ends with the success redirect, whether or not an
\* enqueue failed; the feed row stays, and at the redirect every enqueue that
\* did not fail has its job in the table.
C25_EnqueueFailureNotFatal ==
    /\ [](\A q \in Requests :
            req[q].op = "add" /\ req[q].feed # 0 =>
                /\ req[q].pc \in {"favicon", "refresh", "ok"}
                /\ \E row \in feedRows : row.id = req[q].feed /\ row.user_id = req[q].user
                /\ req[q].pc \in {"refresh", "ok"} /\ "favicon" \notin req[q].failed
                      => RowsWithKey(jobs, FaviconKey(req[q].feed)) # {}
                /\ req[q].pc = "ok" /\ "refresh" \notin req[q].failed
                      => RowsWithKey(jobs, RefreshKey(req[q].feed)) # {})
    /\ [][\A q \in Requests :
            req'[q] # req[q] =>
                /\ req[q].pc = "favicon" => req'[q].pc = "refresh"
                /\ req[q].pc = "refresh" => req'[q].pc = "ok"]_vars

\* A feed-add whose FetchFavicon enqueue failed ended with the success redirect;
\* the feed and its RefreshFeed job are stored.
C25_Witness ==
    \E q \in Requests :
        /\ req[q].pc = "ok" /\ req[q].failed = {"favicon"}
        /\ RowsWithKey(jobs, FaviconKey(req[q].feed)) = {}
        /\ RowsWithKey(jobs, RefreshKey(req[q].feed)) # {}

\* The step of request q is the commit that ends a manual refresh with success.
IsRefreshDone(q) ==
    req[q].op = "refresh" /\ req[q].pc = "commit" /\ req'[q].pc = "ok"

\* The feeds of user u in the feeds table.
OwnedBy(u) == {row.id : row \in {x \in feedRows : x.user_id = u}}

\* C26 as stated: when a manual refresh of user U ends with success, the jobs
\* table holds a RefreshFeed row for every feed U owned at the request, and the
\* request has inserted no job for a feed of another user.
C26_RefreshRowsPresent ==
    [][\A q \in Requests :
          /\ IsRefreshDone(q) =>
                \A f \in req[q].owned : RowsWithKey(jobs', RefreshKey(f)) # {}
          /\ req[q].op = "refresh" /\ req'[q] # req[q] =>
                \A j \in jobs' \ jobs : j.data.feed_id \in OwnedBy(req[q].user)]_vars

\* C26, amended: when a manual refresh of user U ends with success, RefreshFeed
\* was enqueued for exactly the feeds U owned at the request: for each of them
\* the row is in the jobs table, or a runner has already run it with success
\* and deleted it. The request inserts no job for a feed of another user.
C26_RefreshEnqueuedAll ==
    [][\A q \in Requests :
          /\ IsRefreshDone(q) =>
                /\ req[q].left = {}
                /\ \A f \in req[q].owned :
                      \/ RowsWithKey(jobs', RefreshKey(f)) # {}
                      \/ \E id \in okDone' : id[1] = RefreshKey(f)
          /\ req[q].op = "refresh" /\ req'[q] # req[q] =>
                \A j \in jobs' \ jobs : j.data.feed_id \in OwnedBy(req[q].user)]_vars

\* A manual refresh of u1 ended with success after a runner had run and deleted
\* the RefreshFeed job of one of u1's feeds.
C26_Witness ==
    \E q \in Requests :
        /\ req[q].op = "refresh" /\ req[q].pc = "ok" /\ req[q].user = "u1"
        /\ \E f \in req[q].owned :
              /\ RowsWithKey(jobs, RefreshKey(f)) = {}
              /\ \E id \in okDone : id[1] = RefreshKey(f)

\* The user that owns feed f, if the feeds table has the feed.
OwnerOf(f) ==
    IF \E row \in feedRows : row.id = f
    THEN (CHOOSE row \in feedRows : row.id = f).user_id ELSE "nobody"

\* An id that no feed has.
MissingFeed == 0

\* C27: a Feed Store read called with user u returns only feeds and entries of
\* feeds that u owns, and for a feed or an entry of another user it returns
\* what it returns for an id that does not exist.
C27_ReadsScopedToUser ==
    \A u \in Users :
        /\ \A f \in get_all_feeds(u) : OwnerOf(f) = u
        /\ \A url \in Urls :
              feed_with_url_exists(u, url) <=>
                  \E row \in feedRows : row.user_id = u /\ row.url = url
        /\ \A f \in AllFeeds :
              /\ get_feed(u, f).found => OwnerOf(get_feed(u, f).id) = u
              /\ \A e \in get_feed_entries(u, f) : OwnerOf(e[1]) = u
              /\ OwnerOf(f) # u =>
                    /\ get_feed(u, f) = get_feed(u, MissingFeed)
                    /\ get_feed_favicon(u, f) = get_feed_favicon(u, MissingFeed)
                    /\ get_feed_entries(u, f) = get_feed_entries(u, MissingFeed)
              /\ \A e \in BagToSet(entries) :
                    OwnerOf(e[1]) # u \/ OwnerOf(f) # u =>
                        get_feed_entry(u, f, e) = get_feed_entry(u, MissingFeed, e)

\* Feed 1 of u1 has its favicon and entries: u1 reads them, u2 reads nothing
\* of feed 1 and reads its own feed 3.
C27_Witness ==
    /\ get_feed_favicon("u1", 1) = "icon"
    /\ get_feed_entries("u1", 1) # {}
    /\ \E e \in BagToSet(entries) : get_feed_entry("u1", 1, e).found
    /\ ~get_feed("u2", 1).found
    /\ get_feed_entries("u2", 1) = {}
    /\ get_feed("u2", 3).found

\* C28: the keys of two payloads are equal exactly when the payloads have the
\* same type and the same feed_id, whatever their user_id and link; the key the
\* jobs table is modelled with agrees.
C28_KeyIsTypeAndFeed ==
    call.fn = "key" =>
        /\ (call.out[1] = call.out[2]) <=>
              (call.in[1].type = call.in[2].type /\ call.in[1].feed_id = call.in[2].feed_id)
        /\ (key(call.in[1]) = key(call.in[2])) <=> (call.out[1] = call.out[2])

\* The FetchFavicon and the RefreshFeed payload of one feed, keyed differently;
\* and two payloads that differ in user and link only, keyed the same.
C28_Witness ==
    /\ call.fn = "key"
    /\ call.in[1].feed_id = call.in[2].feed_id
    /\ call.in[1].feed_id = 256
    /\ call.in[1].type # call.in[2].type
    /\ call.out[1] # call.out[2]

\* The link list has a link without rel.
HasPlainLink(links) == \E i \in 1..Len(links) : HasNoRel(links[i])
\* The href of its first link without rel.
FirstPlainHref(links) ==
    links[CHOOSE i \in 1..Len(links) :
             HasNoRel(links[i]) /\ \A k \in 1..(i - 1) : ~HasNoRel(links[k])].href

\* C29: for a link list with a link without rel, the site link extracted is the
\* href of the first such link.
C29_SiteLinkIsFirstPlain ==
    call.fn \in {"from_raw_feed", "get_site_link"} /\ HasPlainLink(call.in) =>
        call.out = FirstPlainHref(call.in)

\* C30: for a link list without a link without rel (empty, or every link has a
\* rel), the site link extracted is the empty string.
C30_NoPlainLinkGivesEmpty ==
    call.fn \in {"from_raw_feed", "get_site_link"} /\ ~HasPlainLink(call.in) =>
        call.out = ""

\* The RefreshFeed rows whose handler a step of runner r has just run.
RefreshRan(r) ==
    {rec \in todo[r] \ todo'[r] : rec.data.type = "RefreshFeed" /\ invoked' # invoked}

\* C31: an invocation of the RefreshFeed handler that fails (it records an
\* attempt) leaves feed_entries as it was, and one that succeeds (it records a
\* delete) adds exactly the entries of the source that were not stored, in the
\* same step.
C31_EntriesAllOrNothing ==
    [][\A r \in Runners : \A rec \in RefreshRan(r) :
          IF <<rec.id, "delete">> \in writes'[r]
          THEN entries' = entries (+) SetToBag(NewEntries(rec.data, Source[rec.data.feed_id]))
          ELSE entries' = entries]_vars

\* A RefreshFeed of feed 1 has failed in the open transaction of a runner, and
\* entries of its source are still not stored.
C31_Witness ==
    \E r \in Runners : \E rec \in records[r] :
        /\ rec.data = RefreshFeed(1)
        /\ <<rec.id, "attempt">> \in writes[r]
        /\ NewEntries(rec.data, Source[1]) # {}

\* A call of run_fetch_favicon_job has been made.
FaviconCall == call.fn = "run_fetch_favicon_job"

\* C32: when the page at the site link cannot be fetched, run_fetch_favicon_job
\* returns an error and leaves has_favicon of the feed as it was.
C32_SiteFetchErrorReturned ==
    (FaviconCall /\ call.in.ans.doc = "down") =>
        /\ ~call.out.ok
        /\ call.in.feed_id \in NewFeeds => feeds[call.in.feed_id].has_favicon = "unknown"

\* C33: when run_fetch_favicon_job has stored a favicon (has_favicon = yes), the
\* response the body came from had a 2xx status.
C33_FaviconOnlyFrom2xx ==
    (FaviconCall /\ call.out.favicon \notin {"keep", "null"}) =>
        /\ feeds[call.in.feed_id].has_favicon = "yes"
        /\ call.in.ans.icon = "2xx"

\* The positions of the <link> elements of a document whose type is a feed type.
FeedLinks(links) == {i \in 1..Len(links) : links[i].type \in FeedTypes}
FirstFeedLink(links) == links[CHOOSE i \in FeedLinks(links) : \A j \in FeedLinks(links) : i <= j]

\* C34: find_feed returns the raw feed whenever the bytes parse as a feed;
\* otherwise the URL of the first <link> in document order whose type is
\* application/rss+xml or application/atom+xml, its href resolved against the
\* source URL; otherwise NoFeed.
C34_FindFeedFirstLink ==
    call.fn = "find_feed" =>
        LET url == call.in.url
            data == call.in.data
        IN IF data.feed THEN call.out.tag = "Raw"
           ELSE IF FeedLinks(data.links) # {}
                THEN /\ call.out.tag = "Url"
                     /\ call.out.url = UrlJoin(url, FirstFeedLink(data.links).href)
                ELSE call.out.tag = "NoFeed"

\* The state of a task in the run group's terms: 1 Running, 2 ShutdownRequested
\* (the broadcast is queued in its receiver), 3 Draining (recv() has completed
\* and the task is on its way out), 4 Stopped (returned or aborted).
Phase(ts, ib, t) ==
    IF ts[t] \in {"ok", "err", "aborted"} THEN 4
    ELSE IF ts[t] = "notified" THEN 3
    ELSE IF ib[t] > 0 THEN 2 ELSE 1

\* C35: every step leaves a run-group task where it is or moves it to the next
\* of Running, ShutdownRequested, Draining, Stopped; so Stopped is terminal and
\* is reached only through a requested shutdown.
C35_TaskPhasesInOrder ==
    [][\A t \in UserTasks :
          \/ Phase(task', inbox', t) = Phase(task, inbox, t)
          \/ Phase(task', inbox', t) = Phase(task, inbox, t) + 1]_vars

\* C36: the rows two runners hold claimed never share a fingerprint, and while
\* a row is held it is the only row of its fingerprint in the table: an enqueue
\* of the same (job type, feed_id) stores no second row that another runner
\* could claim, so one handler at a time works on a feed.
C36_OneHandlerPerFingerprint ==
    /\ \A r1, r2 \in Runners :
          r1 # r2 => \A a \in records[r1], b \in records[r2] : a.key # b.key
    /\ \A r \in Runners : \A rec \in records[r] : RowsWithKey(jobs, rec.key) = {rec}

\* Runner r1 holds the RefreshFeed row of feed 1 and its handler has inserted
\* entries; runner r2 is at its claim query, which has no row to return.
C36_Witness ==
    /\ \E rec \in records["r1"] :
          rec.data = RefreshFeed(1) /\ <<rec.id, "delete">> \in writes["r1"]
    /\ pc["r2"] = "run" /\ Claimable = {}

\* A step in which runner r's run_jobs returns an error after its claim: the
\* commit or a statement failed, or a payload did not decode.
IsRollback(r) == pc[r] = "loop" /\ pc'[r] = "select" /\ (env' # env \/ todo[r] # {})

\* C37: when the Run phase of a tick fails, the jobs table is left exactly as it
\* was before the tick's statements (no attempts increment, no failed mark, no
\* deletion), and what the handlers of the tick wrote to feeds and feed_entries
\* stays.
C37_FailedTickDiscardsJobChanges ==
    [][\A r \in Runners :
          IsRollback(r) => /\ jobs' = jobs
                           /\ \A j \in records[r] : j \in jobs'
                           /\ feeds' = feeds
                           /\ entries' = entries]_vars

\* The RefreshFeed handler of feed 1 succeeded in a tick that was rolled back:
\* its row is in the table with no attempt counted, held by no runner, and the
\* entry it inserted is stored.
C37_Witness ==
    \E j \in jobs :
        /\ j.data = RefreshFeed(1) /\ j.attempts = 0 /\ j.status = "pending"
        /\ j.id \in lost /\ j.id \in okRows /\ j.id \notin Locked
        /\ <<1, "e2">> \in BagToSet(entries)

\* The fingerprints a job row can have, and whether a row of one is pending.
JobKeys == {key(FetchFavicon(f)) : f \in AllFeeds} \cup
           {key(RefreshFeed(f)) : f \in AllFeeds} \cup {UnknownKey}
PendingKey(k) == \E j \in jobs : j.key = k /\ j.status = "pending"

\* C38: as long as some runner keeps reaching its Run phase, a pending job does
\* not stay pending forever: its row is deleted or marked failed.
C38_PendingJobsSettle ==
    \A k \in JobKeys :
        []<>(\E r \in Runners : pc[r] = "run") => [](PendingKey(k) => <>~PendingKey(k))

\* The entry belongs to the feed, and the feed to the user.
EntryOfUserFeed(u, f, e) ==
    /\ e \in BagToSet(entries)
    /\ e[1] = f
    /\ \E row \in feedRows : row.id = f /\ row.user_id = u

\* C39: after mark_feed_entry_as_read(user_id, feed_id, entry_id), read_at is
\* set on the entry entry_id alone when it belongs to feed feed_id and the feed
\* to user_id, and on no row otherwise.
C39_MarkReadScoped ==
    call.fn = "mark_feed_entry_as_read" =>
        readAt = IF EntryOfUserFeed(call.in.user_id, call.in.feed_id, call.in.entry_id)
                 THEN {call.in.entry_id} ELSE {}

\* The same through handle_feed_entry, which reads the entry before the UPDATE.
HandleFeedEntryScoped ==
    call.fn = "handle_feed_entry" =>
        readAt = IF EntryOfUserFeed(call.in.user_id, call.in.feed_id, call.in.entry_id)
                 THEN {call.in.entry_id} ELSE {}

====
